---- MODULE Spec2Model ----
(***************************************************************************)
(* Model of the persisted-value hook useLocalStorage                       *)
(* (src/src/hooks/useLocalStorage.ts) running under React's update model:  *)
(* setStoredValue enqueues an update, a render reduces the queue in call   *)
(* order, and the passive effect with deps [key, storedValue] runs after   *)
(* a commit whose storedValue differs (Object.is) from the previous one.   *)
(* A passive effect is flushed before the next render, but an event        *)
(* handler may run while it is still pending.                              *)
(*                                                                         *)
(* Around the hook: the login page, the protected route and the dashboard  *)
(* on the "token" slot (SpecApp), TodoPage on the "todos" slot (SpecTodo), *)
(* useDebounce and useThrottle in DebounceExample (SpecTimers),            *)
(* useCopyToClipboard (SpecCopy), the two user stores (SpecUsers),         *)
(* ErrorBoundary (SpecBoundary) and todoReducer on its own (SpecReducer).  *)
(* Each specification moves the variables of its own component and leaves  *)
(* the others in their initial state.                                      *)
(***************************************************************************)
EXTENDS Naturals, Integers, Sequences, FiniteSets, TLC

(* ------------------------------ bounds --------------------------------- *)
MaxNum == 2      \* numbers 0..MaxNum are the values of a numeric slot
MaxQueue == 2    \* updates that may be queued before a render
MaxCalls == 3    \* set/reset calls recorded per hook instance
MaxTodos == 2    \* todos in the list
MaxClock == 2    \* values of Date.now(), the ids of new todos
MaxDelay == 2    \* the delay argument of useDebounce and useThrottle, in ticks
MaxCopies == 2   \* clipboard writes and reset timers of useCopyToClipboard in flight
MaxFlights == 2  \* requests of one user store in flight
MaxCatches == 3  \* errors the error boundary catches

(* ------------------------------ values --------------------------------- *)
\* JavaScript values, tagged so that values of different types compare.
Num(n) == [t |-> "number", n |-> n, s |-> <<>>]
Str(s) == [t |-> "string", n |-> 0, s |-> s]
Null == [t |-> "null", n |-> 0, s |-> <<>>]
\* an object that refers to itself: JSON.stringify throws on it
Cyclic == [t |-> "object", n |-> 0, s |-> <<>>]
\* the value of the hook's variables while no instance is mounted
Undefined == [t |-> "undefined", n |-> 0, s |-> <<>>]
\* an array of todos: n is the identity of the array object (Object.is
\* compares arrays by identity), s its elements in order
Arr(ref, list) == [t |-> "array", n |-> ref, s |-> list]
\* the Todo interface of TodoPage
Todo(id, text, completed) == [id |-> id, text |-> text, completed |-> completed]

Quote == "\""
Digits == <<"0", "1", "2", "3", "4", "5", "6", "7", "8", "9">>
NullText == <<"n", "u", "l", "l">>
\* what LoginPage stores under "token": not a JSON text
MockToken == <<"m", "o", "c", "k", "-", "t", "o", "k", "e", "n">>
\* a JSON string literal cut off before its closing quote
Truncated == <<Quote, "a">>

\* the hook's key argument
key == "k"

\* the caller-supplied defaults (initialValue), one per value type T
Defaults == {Num(0), Str(<<>>), Null}

\* the literal values a caller of type T = typeof d can pass to set
Literals(d) ==
  IF d.t = "number" THEN {Num(n) : n \in 0..MaxNum}
  ELSE IF d.t = "string" THEN {Str(<<>>), Str(<<"a">>)}
  ELSE IF d.t = "array"
    THEN [t : {"array"}, n : Nat,
          s : Seq([id : 0..9, text : {"a", "b"}, completed : BOOLEAN])]
  ELSE {Null, Cyclic}

(* ------------------------- JSON and the store -------------------------- *)
\* String(v) in place of JSON.stringify(v): a string is written without quotes
JSONstringifyUnquoted(v) ==
  IF v.t = "number" THEN [ok |-> TRUE, text |-> <<Digits[v.n + 1]>>]
  ELSE IF v.t = "string" THEN [ok |-> TRUE, text |-> v.s]
  ELSE IF v.t = "null" THEN [ok |-> TRUE, text |-> NullText]
  ELSE [ok |-> FALSE, text |-> <<>>]

\* the text of one todo object: {id,"text",t} or {id,"text",f}, the member
\* names left out and the booleans shortened to one character
TodoText(todo) ==
  <<"{", Digits[todo.id + 1], ",", Quote, todo.text, Quote, ",",
    IF todo.completed THEN "t" ELSE "f", "}">>

\* the texts of the elements in order, separated by commas
RECURSIVE ElementsText(_)
ElementsText(list) ==
  IF list = <<>> THEN <<>>
  ELSE IF Tail(list) = <<>> THEN TodoText(Head(list))
  ELSE TodoText(Head(list)) \o <<",">> \o ElementsText(Tail(list))

\* JSON.stringify(v): a text, or a throw (ok = FALSE) on a cyclic object;
\* the text of an array does not depend on the identity of the array
JSONstringify(v) ==
  IF v.t = "number" THEN [ok |-> TRUE, text |-> <<Digits[v.n + 1]>>]
  ELSE IF v.t = "string" THEN [ok |-> TRUE, text |-> <<Quote>> \o v.s \o <<Quote>>]
  ELSE IF v.t = "null" THEN [ok |-> TRUE, text |-> NullText]
  ELSE IF v.t = "array" THEN [ok |-> TRUE, text |-> <<"[">> \o ElementsText(v.s) \o <<"]">>]
  ELSE [ok |-> FALSE, text |-> <<>>]

DigitValue(c) == CHOOSE n \in 0..9 : Digits[n + 1] = c

TodoTextLen == 9

\* text is the text of one todo object
IsTodoText(text) ==
  /\ Len(text) = TodoTextLen
  /\ text[1] = "{"
  /\ \E n \in 0..9 : Digits[n + 1] = text[2]
  /\ text[3] = ","
  /\ text[4] = Quote
  /\ text[5] \notin {Quote, ","}
  /\ text[6] = Quote
  /\ text[7] = ","
  /\ text[8] \in {"t", "f"}
  /\ text[9] = "}"

\* the elements of an array text between its brackets: the list, or a throw
RECURSIVE ParseElements(_)
ParseElements(text) ==
  IF Len(text) < TodoTextLen \/ ~IsTodoText(SubSeq(text, 1, TodoTextLen))
    THEN [ok |-> FALSE, list |-> <<>>]
  ELSE LET first == Todo(DigitValue(text[2]), text[5], text[8] = "t")
       IN IF Len(text) = TodoTextLen THEN [ok |-> TRUE, list |-> <<first>>]
          ELSE IF text[TodoTextLen + 1] # "," THEN [ok |-> FALSE, list |-> <<>>]
          ELSE LET rest == ParseElements(SubSeq(text, TodoTextLen + 2, Len(text)))
               IN [ok |-> rest.ok, list |-> IF rest.ok THEN <<first>> \o rest.list ELSE <<>>]

\* JSON.parse(text): a value, or a throw (ok = FALSE) on a text that is not JSON
JSONparse(text) ==
  IF Len(text) = 1 /\ \E n \in 0..9 : Digits[n + 1] = text[1]
    THEN [ok |-> TRUE, value |-> Num(DigitValue(text[1]))]
  ELSE IF text = NullText
    THEN [ok |-> TRUE, value |-> Null]
  ELSE IF /\ Len(text) >= 2
          /\ text[1] = Quote
          /\ text[Len(text)] = Quote
          /\ \A i \in 2..(Len(text) - 1) : text[i] # Quote
    THEN [ok |-> TRUE, value |-> Str(SubSeq(text, 2, Len(text) - 1))]
  ELSE IF text = <<"[", "]">>
    THEN [ok |-> TRUE, value |-> Arr(0, <<>>)]
  ELSE IF /\ Len(text) > 2
          /\ text[1] = "["
          /\ text[Len(text)] = "]"
          /\ ParseElements(SubSeq(text, 2, Len(text) - 1)).ok
    THEN [ok |-> TRUE, value |-> Arr(0, ParseElements(SubSeq(text, 2, Len(text) - 1)).list)]
  ELSE [ok |-> FALSE, value |-> Undefined]

\* localStorage is a function from the keys that have a slot to their text
NoSlots == [k \in {} |-> <<>>]
hasItem(ls, k) == k \in DOMAIN ls
setItem(ls, k, text) == [x \in (DOMAIN ls) \cup {k} |-> IF x = k THEN text ELSE ls[x]]
removeItem(ls, k) == [x \in (DOMAIN ls) \ {k} |-> ls[x]]

\* JSON.parse(item) without the test of item: JSON.parse(null) is null
LazyInitNoGuard(ls, k, d, readOk) ==
  IF ~readOk THEN [value |-> d, kind |-> "readError"]
  ELSE IF ~hasItem(ls, k) THEN [value |-> Null, kind |-> "absent"]
  ELSE IF JSONparse(ls[k]).ok THEN [value |-> JSONparse(ls[k]).value, kind |-> "parsed"]
  ELSE [value |-> d, kind |-> "parseError"]

\* a catch block that returns null in place of initialValue
LazyInitCatchNull(ls, k, d, readOk) ==
  IF ~readOk THEN [value |-> Null, kind |-> "readError"]
  ELSE IF ~hasItem(ls, k) THEN [value |-> d, kind |-> "absent"]
  ELSE IF ls[k] = <<>> THEN [value |-> d, kind |-> "empty"]
  ELSE IF JSONparse(ls[k]).ok THEN [value |-> JSONparse(ls[k]).value, kind |-> "parsed"]
  ELSE [value |-> Null, kind |-> "parseError"]

\* the lazy initial state of useState: the value and how it was obtained
LazyInit(ls, k, d, readOk) ==
  IF ~readOk THEN [value |-> d, kind |-> "readError"]
  ELSE IF ~hasItem(ls, k) THEN [value |-> d, kind |-> "absent"]
  ELSE IF ls[k] = <<>> THEN [value |-> d, kind |-> "empty"]
  ELSE IF JSONparse(ls[k]).ok THEN [value |-> JSONparse(ls[k]).value, kind |-> "parsed"]
  ELSE [value |-> d, kind |-> "parseError"]

(* --------------------------- update queue ------------------------------ *)
\* an update passed to setStoredValue: a literal, or the updater prev => prev + 1
Const(v) == [f |-> "const", v |-> v]
Inc == [f |-> "inc", v |-> Undefined]

ApplyUpdate(a, prev) ==
  IF a.f = "const" THEN a.v ELSE Num(prev.n + 1)

\* every update computed from the state of the last render: the last one wins
ReduceStale(q, state) ==
  IF q = <<>> THEN state ELSE ApplyUpdate(q[Len(q)], state)

\* React reduces the queued updates in call order, each on the result of the last
RECURSIVE Reduce(_, _)
Reduce(q, state) ==
  IF q = <<>> THEN state ELSE Reduce(Tail(q), ApplyUpdate(Head(q), state))

(* ------------------------------ state ---------------------------------- *)
VARIABLES
  localStorage,   \* the persistent store
  mounted,        \* a hook instance exists
  initialValue,   \* its default
  storedValue,    \* its state as of the last render (what the caller sees)
  queue,          \* updates enqueued and not yet rendered
  effectPending,  \* the effect of the last commit has not run yet
  console,        \* kinds of warning this instance has logged
  escaped,        \* an exception left the hook
  log,            \* history: the calls made on this instance
  hydration,      \* history: what the lazy initializer returned, and how
  lastSync,       \* history: outcome of the sync of the current value
  syncs,          \* history: effect runs of this instance
  changes,        \* history: renders that changed storedValue
  onceState,      \* history: value and store when a reset was repeated
  touched,        \* history: a store write or remove of this instance succeeded
  quiet,          \* history: every call so far was made with nothing pending
  twinStorage,    \* the store of the same run started with the slot absent
  twinValue,      \* storedValue in that run
  twinPending     \* effectPending in that run

\* the application around the dashboard's instance (key "token")
VARIABLES
  path,           \* the router's location
  page,           \* the page the routes have rendered
  pending,        \* the location changed and the routes have not rendered yet
  from,           \* location.state.from.pathname, "" when there is none
  loggedOut       \* history: a logout removed the token and no login followed

\* TodoPage around its instance (key "todos")
VARIABLES
  todos,            \* the state of useReducer(todoReducer, storedTodos)
  actions,          \* actions dispatched and not yet reduced by a render
  pageEffectPending,\* the effect setStoredTodos(todos) has to run
  now,              \* Date.now()
  lastList          \* history: the list a settled page showed when it unmounted

\* DebounceExample: useDebounce(search, delay) and useThrottle(search, delay).
\* Time is relative: a timer carries the ticks left until it is due, and the
\* differences of Date.now() values are counted in ticks.
VARIABLES
  input,           \* search, the value passed to both hooks
  delay,           \* the delay passed to both hooks
  debouncedValue,  \* the state of useDebounce
  debTimers,       \* pending timers of useDebounce: [id, left, value]
  debHandle,       \* the timer the last effect of useDebounce created
  throttledValue,  \* the state of useThrottle
  sinceExecuted,   \* Date.now() - lastExecuted.current
  thrTimers,       \* pending timers of useThrottle: [id, left, value]
  thrHandle,       \* the timer the last effect of useThrottle created
  held,            \* history: ticks since input or delay changed
  heldValues,      \* history: the values input has had
  debFlip,         \* history: flips at every setDebouncedValue
  thrFlip,         \* history: flips at every setThrottledValue
  thrUpdated,      \* history: setThrottledValue has been called
  sinceUpdate,     \* history: ticks since the last setThrottledValue
  delayFixed       \* history: delay has not changed since the last setThrottledValue

\* useCopyToClipboard in UsersPageZustand, time in ticks of one second
VARIABLES
  copiedText,      \* the state of the hook: Null or the copied name
  writes,          \* texts of clipboard writes that have not settled, in call order
  copyTimers,      \* ticks left of the pending reset timers, in creation order
  copyErrors,      \* flips at every console.error of copy
  copied,          \* history: a copy has succeeded
  lastCopied,      \* history: the text of the last copy that succeeded
  sinceCopy        \* history: ticks since the last copy that succeeded

\* the two user stores: Zustand's useUserStore and the Redux users slice
VARIABLES
  userStore,       \* useUserStore: [users, loading, error]
  storeFlights,    \* calls of its fetchUsers that have not settled
  storeOverlap,    \* history: a call started while another was in flight
  storeLast,       \* history: what the last step of the store was
  usersSlice,      \* state.users of the Redux store: [data, loading, error]
  sliceFlights,    \* fetchUsers thunks that have not settled
  sliceOverlap,    \* history: a thunk started while another was in flight
  sliceLast        \* history: the last action the slice reduced

\* ErrorBoundary around some children
VARIABLES
  boundary,        \* this.state: [hasError, error]
  rendered,        \* what render() returned: "children" or "fallback"
  faulty,          \* the children throw when they next render
  caught,          \* history: the errors caught, in order
  resets,          \* history: calls of handleReset
  boundaryLast     \* history: the last step of the boundary, flip set at each

\* todoReducer applied to arbitrary lists
VARIABLES
  todoList,        \* the reducer's state
  before,          \* history: the state before the last action
  trail            \* history: the actions reduced, the last two of them

hookVars == <<localStorage, mounted, initialValue, storedValue, queue, effectPending,
              console, escaped, log, hydration, lastSync, syncs, changes, onceState,
              touched, quiet, twinStorage, twinValue, twinPending>>
appVars == <<path, page, pending, from, loggedOut>>
todoVars == <<todos, actions, pageEffectPending, now, lastList>>
\* the variables the hook's actions leave alone
timerVars == <<input, delay, debouncedValue, debTimers, debHandle, throttledValue,
               sinceExecuted, thrTimers, thrHandle, held, heldValues, debFlip,
               thrFlip, thrUpdated, sinceUpdate, delayFixed>>
copyVars == <<copiedText, writes, copyTimers, copyErrors, copied, lastCopied, sinceCopy>>
userVars == <<userStore, storeFlights, storeOverlap, storeLast,
              usersSlice, sliceFlights, sliceOverlap, sliceLast>>
boundaryVars == <<boundary, rendered, faulty, caught, resets, boundaryLast>>
reducerVars == <<todoList, before, trail>>
\* the variables the hook's actions leave alone
notHook == <<appVars, todoVars, timerVars, copyVars, userVars, boundaryVars, reducerVars>>
\* the variables the application's actions leave alone
notApp == <<todoVars, timerVars, copyVars, userVars, boundaryVars, reducerVars>>
\* the variables TodoPage's actions leave alone
notTodo == <<appVars, timerVars, copyVars, userVars, boundaryVars, reducerVars>>
\* the variables DebounceExample's actions leave alone
notTimers == <<hookVars, appVars, todoVars, copyVars, userVars, boundaryVars, reducerVars>>
\* the variables the actions of useCopyToClipboard leave alone
notCopy == <<hookVars, appVars, todoVars, timerVars, userVars, boundaryVars, reducerVars>>
\* the variables the actions of the user stores leave alone
notUsers == <<hookVars, appVars, todoVars, timerVars, copyVars, boundaryVars, reducerVars>>
\* the variables the actions of ErrorBoundary leave alone
notBoundary == <<hookVars, appVars, todoVars, timerVars, copyVars, userVars, reducerVars>>
\* the variables the steps of todoReducer leave alone
notReducer == <<hookVars, appVars, todoVars, timerVars, copyVars, userVars, boundaryVars>>

vars == <<hookVars, appVars, todoVars, timerVars, copyVars, userVars, boundaryVars,
          reducerVars>>

\* the application shows the home page
AppInit ==
  /\ path = "/"
  /\ page = "home"
  /\ pending = FALSE
  /\ from = ""
  /\ loggedOut = FALSE

NoList == [known |-> FALSE, list |-> <<>>]

\* no TodoPage is mounted
TodoInit ==
  /\ todos = Undefined
  /\ actions = <<>>
  /\ pageEffectPending = FALSE
  /\ now = 1
  /\ lastList = NoList

NotHydrated == [value |-> Undefined, kind |-> "none"]
NoOnce == [some |-> FALSE, value |-> Undefined, store |-> NoSlots]

InitialStores ==
  {NoSlots, setItem(NoSlots, key, <<>>), setItem(NoSlots, key, MockToken),
   setItem(NoSlots, key, Truncated)}

\* a timer created by setTimeout(callback, left); value is the value that
\* the callback closes over
Timer(id, left, value) == [id |-> id, left |-> left, value |-> value]

\* DebounceExample mounted with delay d and both hooks' mount effects run:
\* each hook shows "" and has set its timer
TimersInit(d) ==
  /\ input = ""
  /\ delay = d
  /\ debouncedValue = ""
  /\ debTimers = {Timer(0, d, "")}
  /\ debHandle = 0
  /\ throttledValue = ""
  /\ sinceExecuted = 0
  /\ thrTimers = {Timer(0, d, "")}
  /\ thrHandle = 0
  /\ held = 0
  /\ heldValues = {""}
  /\ debFlip = FALSE
  /\ thrFlip = FALSE
  /\ thrUpdated = FALSE
  /\ sinceUpdate = 0
  /\ delayFixed = TRUE

\* reset timers run after 2000 ms
CopyTicks == 2

\* UsersPageZustand mounted, nothing copied yet
CopyInit ==
  /\ copiedText = Null
  /\ writes = <<>>
  /\ copyTimers = <<>>
  /\ copyErrors = FALSE
  /\ copied = FALSE
  /\ lastCopied = Null
  /\ sinceCopy = CopyTicks

\* the error field of a user store: null, or a message
NoError == [null |-> TRUE, message |-> ""]
Message(m) == [null |-> FALSE, message |-> m]

\* what a store did last: "none", "start", "ok" with the response, "fail"
Last(op, data) == [op |-> op, data |-> data]

\* both stores as created: no users, not loading, no error
UsersInit ==
  /\ userStore = [users |-> <<>>, loading |-> FALSE, error |-> NoError]
  /\ storeFlights = 0
  /\ storeOverlap = FALSE
  /\ storeLast = Last("none", <<>>)
  /\ usersSlice = [data |-> <<>>, loading |-> FALSE, error |-> NoError]
  /\ sliceFlights = 0
  /\ sliceOverlap = FALSE
  /\ sliceLast = Last("none", <<>>)

\* no error object
NoThrow == "none"

\* the boundary as constructed, its children rendered
BoundaryInit ==
  /\ boundary = [hasError |-> FALSE, error |-> NoThrow]
  /\ rendered = "children"
  /\ faulty = FALSE
  /\ caught = <<>>
  /\ resets = 0
  /\ boundaryLast = [op |-> "none", error |-> NoThrow, flip |-> FALSE]

\* the reducer holding the list l, nothing reduced yet
ReducerInit(l) ==
  /\ todoList = l
  /\ before = l
  /\ trail = <<>>

\* the state of every component but the hook and DebounceExample
OthersInit ==
  /\ AppInit
  /\ TodoInit
  /\ CopyInit
  /\ UsersInit
  /\ BoundaryInit

\* no instance is mounted
HookInit ==
  /\ localStorage \in InitialStores
  /\ mounted = FALSE
  /\ initialValue = Undefined
  /\ storedValue = Undefined
  /\ queue = <<>>
  /\ effectPending = FALSE
  /\ console = {}
  /\ escaped = FALSE
  /\ log = <<>>
  /\ hydration = NotHydrated
  /\ lastSync = "none"
  /\ syncs = 0
  /\ changes = 0
  /\ onceState = NoOnce
  /\ touched = FALSE
  /\ quiet = TRUE
  /\ twinStorage = localStorage
  /\ twinValue = Undefined
  /\ twinPending = FALSE

Init ==
  /\ HookInit
  /\ OthersInit
  /\ TimersInit(1)
  /\ ReducerInit(<<>>)

\* no update is queued and no effect is pending
Settled == mounted /\ queue = <<>> /\ ~effectPending

(* ------------------------------ actions -------------------------------- *)
\* useLocalStorage(key, d) on mount: lazy initial state, effect scheduled
Create(d, readOk) ==
  LET h == LazyInit(localStorage, key, d, readOk)
      unreadable == h.kind \in {"readError", "parseError"}
      twinLs == IF unreadable THEN removeItem(localStorage, key) ELSE localStorage
  IN /\ ~mounted
     /\ mounted' = TRUE
     /\ initialValue' = d
     /\ storedValue' = h.value
     /\ queue' = <<>>
     /\ effectPending' = TRUE
     /\ console' = IF unreadable THEN {"read"} ELSE {}
     /\ log' = <<>>
     /\ hydration' = h
     /\ lastSync' = "pending"
     /\ syncs' = 0
     /\ changes' = 0
     /\ onceState' = NoOnce
     /\ touched' = FALSE
     /\ quiet' = TRUE
     /\ twinStorage' = twinLs
     /\ twinValue' = LazyInit(twinLs, key, d, TRUE).value
     /\ twinPending' = TRUE
     /\ UNCHANGED <<localStorage, escaped>>

\* setStoredValue(a): the update is enqueued; nothing else happens until a render
setStoredValue(a) ==
  /\ mounted
  /\ Len(queue) < MaxQueue
  /\ Len(log) < MaxCalls
  /\ \/ a.f = "const" /\ a.v \in Literals(initialValue)
     \/ /\ a.f = "inc"
        /\ Reduce(queue, storedValue).t = "number"
        /\ Reduce(queue, storedValue).n < MaxNum
  /\ queue' = Append(queue, a)
  /\ log' = Append(log, [op |-> "set", a |-> a])
  /\ quiet' = (quiet /\ queue = <<>> /\ ~effectPending)
  /\ UNCHANGED <<localStorage, mounted, initialValue, storedValue, effectPending,
                 console, escaped, hydration, lastSync, syncs, changes, onceState,
                 touched, twinStorage, twinValue, twinPending>>

\* reset() that removes the slot and leaves the state alone
resetKeepsValue(removeOk) ==
  /\ mounted
  /\ Len(queue) < MaxQueue
  /\ Len(log) < MaxCalls
  /\ queue' = queue
  /\ localStorage' = IF removeOk THEN removeItem(localStorage, key) ELSE localStorage
  /\ twinStorage' = IF removeOk THEN removeItem(twinStorage, key) ELSE twinStorage
  /\ console' = IF removeOk THEN console ELSE console \cup {"remove"}
  /\ touched' = (touched \/ removeOk)
  /\ log' = Append(log, [op |-> "reset", a |-> Const(initialValue)])
  /\ lastSync' = IF effectPending THEN lastSync ELSE "none"
  /\ quiet' = (quiet /\ queue = <<>> /\ ~effectPending)
  /\ onceState' = IF Settled /\ log # <<>> /\ log[Len(log)].op = "reset"
                    THEN [some |-> TRUE, value |-> storedValue, store |-> localStorage]
                    ELSE NoOnce
  /\ UNCHANGED <<mounted, initialValue, storedValue, effectPending, escaped,
                 hydration, syncs, changes, twinValue, twinPending>>

\* reset() that leaves the state alone while a sync is still pending
resetAfterSync(removeOk) ==
  /\ mounted
  /\ Len(queue) < MaxQueue
  /\ Len(log) < MaxCalls
  /\ queue' = IF effectPending THEN queue ELSE Append(queue, Const(initialValue))
  /\ localStorage' = IF removeOk THEN removeItem(localStorage, key) ELSE localStorage
  /\ twinStorage' = IF removeOk THEN removeItem(twinStorage, key) ELSE twinStorage
  /\ console' = IF removeOk THEN console ELSE console \cup {"remove"}
  /\ touched' = (touched \/ removeOk)
  /\ log' = Append(log, [op |-> "reset", a |-> Const(initialValue)])
  /\ lastSync' = IF effectPending THEN lastSync ELSE "none"
  /\ quiet' = (quiet /\ queue = <<>> /\ ~effectPending)
  /\ onceState' = IF Settled /\ log # <<>> /\ log[Len(log)].op = "reset"
                    THEN [some |-> TRUE, value |-> storedValue, store |-> localStorage]
                    ELSE NoOnce
  /\ UNCHANGED <<mounted, initialValue, storedValue, effectPending, escaped,
                 hydration, syncs, changes, twinValue, twinPending>>

\* reset(): setStoredValue(initialValue), then removeItem(key) inside try/catch
reset(removeOk) ==
  /\ mounted
  /\ Len(queue) < MaxQueue
  /\ Len(log) < MaxCalls
  /\ queue' = Append(queue, Const(initialValue))
  /\ localStorage' = IF removeOk THEN removeItem(localStorage, key) ELSE localStorage
  /\ twinStorage' = IF removeOk THEN removeItem(twinStorage, key) ELSE twinStorage
  /\ console' = IF removeOk THEN console ELSE console \cup {"remove"}
  /\ touched' = (touched \/ removeOk)
  /\ log' = Append(log, [op |-> "reset", a |-> Const(initialValue)])
  /\ lastSync' = IF effectPending THEN lastSync ELSE "none"
  /\ quiet' = (quiet /\ queue = <<>> /\ ~effectPending)
  /\ onceState' = IF Settled /\ log # <<>> /\ log[Len(log)].op = "reset"
                    THEN [some |-> TRUE, value |-> storedValue, store |-> localStorage]
                    ELSE NoOnce
  /\ UNCHANGED <<mounted, initialValue, storedValue, effectPending, escaped,
                 hydration, syncs, changes, twinValue, twinPending>>

\* a render whose effect has no dependency array: it is scheduled every time
RenderNoDeps ==
  LET new == Reduce(queue, storedValue)
      twinNew == Reduce(queue, twinValue)
  IN /\ mounted
     /\ queue # <<>>
     /\ ~effectPending
     /\ storedValue' = new
     /\ queue' = <<>>
     /\ effectPending' = TRUE
     /\ changes' = IF new # storedValue THEN changes + 1 ELSE changes
     /\ lastSync' = "pending"
     /\ twinValue' = twinNew
     /\ twinPending' = TRUE
     /\ UNCHANGED <<localStorage, mounted, initialValue, console, escaped, log,
                    hydration, syncs, onceState, touched, quiet, twinStorage>>

\* a render whose effect depends on [key] only: a changed value schedules no sync
RenderKeyDeps ==
  LET new == Reduce(queue, storedValue)
      twinNew == Reduce(queue, twinValue)
  IN /\ mounted
     /\ queue # <<>>
     /\ ~effectPending
     /\ storedValue' = new
     /\ queue' = <<>>
     /\ effectPending' = FALSE
     /\ changes' = IF new # storedValue THEN changes + 1 ELSE changes
     /\ lastSync' = lastSync
     /\ twinValue' = twinNew
     /\ twinPending' = FALSE
     /\ UNCHANGED <<localStorage, mounted, initialValue, console, escaped, log,
                    hydration, syncs, onceState, touched, quiet, twinStorage>>

\* a render: the queue is reduced; the effect is scheduled iff storedValue changed
Render ==
  LET new == Reduce(queue, storedValue)
      twinNew == Reduce(queue, twinValue)
  IN /\ mounted
     /\ queue # <<>>
     /\ ~effectPending
     /\ storedValue' = new
     /\ queue' = <<>>
     /\ effectPending' = (new # storedValue)
     /\ changes' = IF new # storedValue THEN changes + 1 ELSE changes
     /\ lastSync' = IF new # storedValue THEN "pending" ELSE lastSync
     /\ twinValue' = twinNew
     /\ twinPending' = (twinNew # twinValue)
     /\ UNCHANGED <<localStorage, mounted, initialValue, console, escaped, log,
                    hydration, syncs, onceState, touched, quiet, twinStorage>>

\* the store after setItem(key, JSON.stringify(v)) inside try/catch
Written(ls, v, writeOk) ==
  IF JSONstringify(v).ok /\ writeOk THEN setItem(ls, key, JSONstringify(v).text) ELSE ls

\* the effect without try/catch: a throw of stringify or setItem leaves the hook
EffectUncaught(writeOk) ==
  LET done == JSONstringify(storedValue).ok /\ writeOk
  IN /\ mounted
     /\ effectPending
     /\ effectPending' = FALSE
     /\ localStorage' = Written(localStorage, storedValue, writeOk)
     /\ console' = IF done THEN console ELSE console \cup {"write"}
     /\ lastSync' = IF done THEN "ok" ELSE "failed"
     /\ touched' = (touched \/ done)
     /\ syncs' = syncs + 1
     /\ escaped' = (escaped \/ ~done)
     /\ twinStorage' = IF twinPending THEN Written(twinStorage, twinValue, writeOk)
                       ELSE twinStorage
     /\ twinPending' = FALSE
     /\ UNCHANGED <<mounted, initialValue, storedValue, queue, log,
                    hydration, changes, onceState, quiet, twinValue>>

\* the effect writing initialValue in place of storedValue
EffectWritesInitial(writeOk) ==
  LET done == JSONstringify(initialValue).ok /\ writeOk
  IN /\ mounted
     /\ effectPending
     /\ effectPending' = FALSE
     /\ localStorage' = Written(localStorage, initialValue, writeOk)
     /\ console' = IF done THEN console ELSE console \cup {"write"}
     /\ lastSync' = IF done THEN "ok" ELSE "failed"
     /\ touched' = (touched \/ done)
     /\ syncs' = syncs + 1
     /\ twinStorage' = IF twinPending THEN Written(twinStorage, twinValue, writeOk)
                       ELSE twinStorage
     /\ twinPending' = FALSE
     /\ UNCHANGED <<mounted, initialValue, storedValue, queue, escaped, log,
                    hydration, changes, onceState, quiet, twinValue>>

\* the effect: localStorage.setItem(key, JSON.stringify(storedValue)) in try/catch
Effect(writeOk) ==
  LET done == JSONstringify(storedValue).ok /\ writeOk
  IN /\ mounted
     /\ effectPending
     /\ effectPending' = FALSE
     /\ localStorage' = Written(localStorage, storedValue, writeOk)
     /\ console' = IF done THEN console ELSE console \cup {"write"}
     /\ lastSync' = IF done THEN "ok" ELSE "failed"
     /\ touched' = (touched \/ done)
     /\ syncs' = syncs + 1
     /\ twinStorage' = IF twinPending THEN Written(twinStorage, twinValue, writeOk)
                       ELSE twinStorage
     /\ twinPending' = FALSE
     /\ UNCHANGED <<mounted, initialValue, storedValue, queue, escaped, log,
                    hydration, changes, onceState, quiet, twinValue>>

\* the component leaves the tree; updates still queued are dropped
Unmount ==
  /\ mounted
  /\ ~effectPending
  /\ mounted' = FALSE
  /\ initialValue' = Undefined
  /\ storedValue' = Undefined
  /\ queue' = <<>>
  /\ console' = {}
  /\ log' = <<>>
  /\ hydration' = NotHydrated
  /\ lastSync' = "none"
  /\ syncs' = 0
  /\ changes' = 0
  /\ onceState' = NoOnce
  /\ touched' = FALSE
  /\ quiet' = TRUE
  /\ twinStorage' = localStorage
  /\ twinValue' = Undefined
  /\ twinPending' = FALSE
  /\ UNCHANGED <<localStorage, effectPending, escaped>>

Updates == {Const(v) : v \in {Num(n) : n \in 0..MaxNum} \cup {Str(<<>>), Str(<<"a">>), Null, Cyclic}}
             \cup {Inc}

Next ==
  \/ (\E d \in Defaults, readOk \in BOOLEAN : Create(d, readOk)) /\ UNCHANGED notHook
  \/ (\E a \in Updates : setStoredValue(a)) /\ UNCHANGED notHook
  \/ (\E removeOk \in BOOLEAN : reset(removeOk)) /\ UNCHANGED notHook
  \/ Render /\ UNCHANGED notHook
  \/ (\E writeOk \in BOOLEAN : Effect(writeOk)) /\ UNCHANGED notHook
  \/ Unmount /\ UNCHANGED notHook

Spec == Init /\ [][Next]_vars

\* React always gets to render a queued update and to flush a pending effect
FairSpec ==
  /\ Spec
  /\ WF_vars(Render /\ UNCHANGED notHook)
  /\ WF_vars((\E writeOk \in BOOLEAN : Effect(writeOk)) /\ UNCHANGED notHook)

(* ------------------- login, protected route, logout -------------------- *)
\* getItem("token") !== undefined: getItem gives null for an absent slot
isAuthenticatedAlways(ls) == TRUE

\* ProtectedRoute's isAuthenticated(): localStorage.getItem("token") !== null
isAuthenticated(ls) == hasItem(ls, key)

Paths == {"/", "/login", "/dashboard"}

\* a link or the address bar changes the location
navigate(p) ==
  /\ ~pending
  /\ path' = p
  /\ pending' = TRUE
  /\ from' = ""
  /\ UNCHANGED <<page, loggedOut, hookVars, notApp>>

\* LoginPage.handleLogin: setItem("token", "mock-token"), navigate(from, replace);
\* when setItem throws the handler is left before navigate and nothing changes
handleLogin ==
  /\ page = "login"
  /\ ~pending
  /\ localStorage' = setItem(localStorage, key, MockToken)
  /\ path' = IF from # "" THEN from ELSE "/dashboard"
  /\ pending' = TRUE
  /\ from' = ""
  /\ loggedOut' = FALSE
  /\ UNCHANGED <<page, mounted, initialValue, storedValue, queue, effectPending,
                 console, escaped, log, hydration, lastSync, syncs, changes,
                 onceState, touched, quiet, twinStorage, twinValue, twinPending,
                 notApp>>

\* DashboardPage.handleLogout: reset(), then navigate("/login")
handleLogout(removeOk) ==
  /\ page = "dashboard"
  /\ ~pending
  /\ reset(removeOk)
  /\ path' = "/login"
  /\ pending' = TRUE
  /\ from' = ""
  /\ loggedOut' = removeOk
  /\ UNCHANGED <<page, notApp>>

\* the dashboard's instance leaves the tree with the page, if it is there
LeaveDashboard ==
  IF mounted THEN Unmount ELSE UNCHANGED hookVars

\* the routes render the location; pending effects are flushed first
RouteRender ==
  /\ pending
  /\ ~effectPending
  /\ \/ /\ path = "/dashboard"
        /\ isAuthenticated(localStorage)
        /\ page' = "dashboard"
        /\ pending' = FALSE
        /\ IF page = "dashboard" THEN UNCHANGED hookVars
           ELSE \E readOk \in BOOLEAN : Create(Str(<<>>), readOk)
        /\ UNCHANGED <<path, from, loggedOut>>
     \/ /\ path = "/dashboard"
        /\ ~isAuthenticated(localStorage)
        /\ path' = "/login"
        /\ from' = "/dashboard"
        /\ page' = "none"
        /\ LeaveDashboard
        /\ UNCHANGED <<pending, loggedOut>>
     \/ /\ path # "/dashboard"
        /\ page' = IF path = "/login" THEN "login" ELSE "home"
        /\ pending' = FALSE
        /\ LeaveDashboard
        /\ UNCHANGED <<path, from, loggedOut>>
  /\ UNCHANGED notApp

\* the application starts on the home page with an empty store
InitApp == Init /\ localStorage = NoSlots

NextApp ==
  \/ \E p \in Paths : navigate(p)
  \/ RouteRender
  \/ handleLogin
  \/ \E removeOk \in BOOLEAN : handleLogout(removeOk)
  \/ (\E writeOk \in BOOLEAN : Effect(writeOk)) /\ UNCHANGED <<appVars, notApp>>

SpecApp == InitApp /\ [][NextApp]_vars

(* ------------------------------ TodoPage ------------------------------- *)
\* the default of TodoPage's instance: useLocalStorage<Todo[]>("todos", [])
EmptyList == Arr(0, <<>>)

\* the actions of the reducer; id is Date.now() for ADD_TODO, the payload for
\* TOGGLE_TODO; flag is the payload of SELECT_ALL
Action(type, id, text, flag) == [type |-> type, id |-> id, text |-> text, flag |-> flag]

RECURSIVE Toggle(_, _)
Toggle(list, id) ==
  IF list = <<>> THEN <<>>
  ELSE <<IF Head(list).id = id
           THEN Todo(Head(list).id, Head(list).text, ~Head(list).completed)
           ELSE Head(list)>> \o Toggle(Tail(list), id)

RECURSIVE SelectAll(_, _)
SelectAll(list, flag) ==
  IF list = <<>> THEN <<>>
  ELSE <<Todo(Head(list).id, Head(list).text, flag)>> \o SelectAll(Tail(list), flag)

\* the filter keeping the completed todos
KeepCompleted(todo) == todo.completed

\* the filter of DELETE_SELECTED: (todo) => !todo.completed
NotCompleted(todo) == ~todo.completed

\* todoReducer on the elements of the state
todoReducer(list, a) ==
  IF a.type = "ADD_TODO" THEN Append(list, Todo(a.id, a.text, FALSE))
  ELSE IF a.type = "TOGGLE_TODO" THEN Toggle(list, a.id)
  ELSE IF a.type = "DELETE_SELECTED" THEN SelectSeq(list, NotCompleted)
  ELSE IF a.type = "SELECT_ALL" THEN SelectAll(list, a.flag)
  ELSE list

\* the dispatched actions reduced in dispatch order
RECURSIVE ReduceTodos(_, _)
ReduceTodos(as, list) ==
  IF as = <<>> THEN list ELSE ReduceTodos(Tail(as), todoReducer(list, Head(as)))

\* the identity of a newly allocated array: one that no live array has
FreshRef ==
  CHOOSE n \in 1..(MaxQueue + 3) :
    n \notin {storedValue.n, todos.n} \cup {queue[i].v.n : i \in DOMAIN queue}

\* what the page lets the user dispatch
Dispatchable ==
  {Action("ADD_TODO", now, "a", FALSE)}
    \cup {Action("TOGGLE_TODO", todos.s[i].id, "", FALSE) : i \in DOMAIN todos.s}
    \cup {Action("DELETE_SELECTED", 0, "", FALSE)}
    \cup {Action("SELECT_ALL", 0, "", flag) : flag \in BOOLEAN}

Adds(as) == Len(SelectSeq(as, LAMBDA a : a.type = "ADD_TODO"))

\* TodoPage mounts: the hook hydrates, the reducer starts with storedTodos,
\* both effects are scheduled
MountTodo(readOk) ==
  /\ Create(EmptyList, readOk)
  /\ todos' = LazyInit(localStorage, key, EmptyList, readOk).value
  /\ actions' = <<>>
  /\ pageEffectPending' = TRUE
  /\ UNCHANGED <<now, lastList, notTodo>>

\* an event handler dispatches an action
dispatch(a) ==
  /\ mounted
  /\ Len(actions) < MaxQueue
  /\ Len(log) + (IF pageEffectPending THEN 1 ELSE 0) < MaxCalls
  /\ a.type = "ADD_TODO" => Len(todos.s) + Adds(actions) < MaxTodos
  /\ actions' = Append(actions, a)
  /\ UNCHANGED <<todos, pageEffectPending, now, lastList, hookVars, notTodo>>

\* a render whose effect has the dependency array []: it runs on mount only
RenderTodoMountDeps ==
  LET new == IF actions = <<>> THEN todos
             ELSE Arr(FreshRef, ReduceTodos(actions, todos.s))
  IN /\ mounted
     /\ ~effectPending
     /\ ~pageEffectPending
     /\ actions # <<>> \/ queue # <<>>
     /\ todos' = new
     /\ actions' = <<>>
     /\ pageEffectPending' = FALSE
     /\ IF queue # <<>> THEN Render ELSE UNCHANGED hookVars
     /\ UNCHANGED <<now, lastList, notTodo>>

\* a render of TodoPage: the reducer and the hook's state reduce their queues;
\* the effect with deps [todos] is scheduled when the array is another one
RenderTodo ==
  LET new == IF actions = <<>> THEN todos
             ELSE Arr(FreshRef, ReduceTodos(actions, todos.s))
  IN /\ mounted
     /\ ~effectPending
     /\ ~pageEffectPending
     /\ actions # <<>> \/ queue # <<>>
     /\ todos' = new
     /\ actions' = <<>>
     /\ pageEffectPending' = (new # todos)
     /\ IF queue # <<>> THEN Render ELSE UNCHANGED hookVars
     /\ UNCHANGED <<now, lastList, notTodo>>

\* useEffect(() => { setStoredTodos(todos) }, [todos]); it is declared after
\* the hook's effect and runs after it
PageEffect ==
  /\ pageEffectPending
  /\ ~effectPending
  /\ setStoredValue(Const(todos))
  /\ pageEffectPending' = FALSE
  /\ UNCHANGED <<todos, actions, now, lastList, notTodo>>

\* the page leaves the tree (a reload); pending effects are flushed first
UnmountTodo ==
  /\ ~pageEffectPending
  /\ Unmount
  /\ todos' = Undefined
  /\ actions' = <<>>
  /\ pageEffectPending' = FALSE
  /\ lastList' = IF queue = <<>> /\ actions = <<>> /\ console = {}
                   THEN [known |-> TRUE, list |-> todos.s]
                   ELSE NoList
  /\ UNCHANGED <<now, notTodo>>

\* time passes
TickClock ==
  /\ now < MaxClock
  /\ now' = now + 1
  /\ UNCHANGED <<todos, actions, pageEffectPending, lastList, hookVars, notTodo>>

InitTodo == Init /\ localStorage = NoSlots

NextTodo ==
  \/ \E readOk \in BOOLEAN : MountTodo(readOk)
  \/ \E a \in Dispatchable : dispatch(a)
  \/ RenderTodo
  \/ PageEffect
  \/ (\E writeOk \in BOOLEAN : Effect(writeOk))
       /\ UNCHANGED <<todoVars, notTodo>>
  \/ UnmountTodo
  \/ TickClock

SpecTodo == InitTodo /\ [][NextTodo]_vars

(* ---------------------- useDebounce and useThrottle -------------------- *)
Inputs == {"", "a", "b"}
Delays == 1..MaxDelay

\* the handle of the next timer
NewId(handle) == 1 - handle

\* t of a Date.now() difference or of a history counter, one tick later
Later(t) == IF t < MaxDelay THEN t + 1 ELSE MaxDelay

\* a timer one tick later: it is due when left = 0 and may run late
Aged(timers) ==
  {Timer(t.id, IF t.left > 0 THEN t.left - 1 ELSE 0, t.value) : t \in timers}

\* the effect of useDebounce without its cleanup
useDebounceEffectNoCleanup(timers, handle, v, d) ==
  timers \cup {Timer(NewId(handle), d, v)}

\* the effect of useDebounce after value or delay changed: the cleanup of the
\* last effect clears its timer, then setTimeout(..., delay)
useDebounceEffect(timers, handle, v, d) ==
  {t \in timers : t.id # handle} \cup {Timer(NewId(handle), d, v)}

\* the effect of useThrottle that leaves lastExecuted alone when it updates
useThrottleEffectNoStamp(timers, handle, v, d, since, shown) ==
  LET due == since >= d
  IN [value |-> IF due THEN v ELSE shown,
      since |-> since,
      updated |-> due,
      timers |-> {t \in timers : t.id # handle}
                   \cup {Timer(NewId(handle), IF d > since THEN d - since ELSE 0, v)}]

\* the effect of useThrottle after value or delay changed: the cleanup clears
\* the last timer; an update at once when delay has passed since the last one;
\* then setTimeout(..., delay - (now - lastExecuted.current))
useThrottleEffect(timers, handle, v, d, since, shown) ==
  LET due == since >= d
      after == IF due THEN 0 ELSE since
  IN [value |-> IF due THEN v ELSE shown,
      since |-> after,
      updated |-> due,
      timers |-> {t \in timers : t.id # handle}
                   \cup {Timer(NewId(handle), IF d > after THEN d - after ELSE 0, v)}]

\* a render with a new value or delay, and the effects of both hooks after it
Rerender(v, d) ==
  LET thr == useThrottleEffect(thrTimers, thrHandle, v, d, sinceExecuted, throttledValue)
  IN /\ input' = v
     /\ delay' = d
     /\ debTimers' = useDebounceEffect(debTimers, debHandle, v, d)
     /\ debHandle' = NewId(debHandle)
     /\ throttledValue' = thr.value
     /\ sinceExecuted' = thr.since
     /\ thrTimers' = thr.timers
     /\ thrHandle' = NewId(thrHandle)
     /\ held' = 0
     /\ heldValues' = heldValues \cup {v}
     /\ thrFlip' = IF thr.updated THEN ~thrFlip ELSE thrFlip
     /\ thrUpdated' = (thrUpdated \/ thr.updated)
     /\ sinceUpdate' = IF thr.updated THEN 0 ELSE sinceUpdate
     /\ delayFixed' = IF thr.updated THEN TRUE ELSE (delayFixed /\ d = delay)
     /\ UNCHANGED <<debouncedValue, debFlip, notTimers>>

\* onChange: setSearch(e.target.value)
ChangeInput(v) ==
  /\ v # input
  /\ Rerender(v, delay)

\* the parent passes another delay
ChangeDelay(d) ==
  /\ d # delay
  /\ Rerender(input, d)

\* the callback of a timer of useDebounce: setDebouncedValue(value)
FireDebounce(t) ==
  /\ t \in debTimers
  /\ t.left = 0
  /\ debTimers' = debTimers \ {t}
  /\ debouncedValue' = t.value
  /\ debFlip' = ~debFlip
  /\ UNCHANGED <<input, delay, debHandle, throttledValue, sinceExecuted, thrTimers,
                 thrHandle, held, heldValues, thrFlip, thrUpdated, sinceUpdate,
                 delayFixed, notTimers>>

\* the callback of useThrottle tested with > in place of >=
FireThrottleStrict(t) ==
  LET due == sinceExecuted > delay
  IN /\ t \in thrTimers
     /\ t.left = 0
     /\ thrTimers' = thrTimers \ {t}
     /\ throttledValue' = IF due THEN t.value ELSE throttledValue
     /\ sinceExecuted' = IF due THEN 0 ELSE sinceExecuted
     /\ thrFlip' = IF due THEN ~thrFlip ELSE thrFlip
     /\ thrUpdated' = (thrUpdated \/ due)
     /\ sinceUpdate' = IF due THEN 0 ELSE sinceUpdate
     /\ delayFixed' = IF due THEN TRUE ELSE delayFixed
     /\ UNCHANGED <<input, delay, debouncedValue, debTimers, debHandle, thrHandle,
                    held, heldValues, debFlip, notTimers>>

\* the callback of a timer of useThrottle: an update when delay has passed
\* since the last one
FireThrottle(t) ==
  LET due == sinceExecuted >= delay
  IN /\ t \in thrTimers
     /\ t.left = 0
     /\ thrTimers' = thrTimers \ {t}
     /\ throttledValue' = IF due THEN t.value ELSE throttledValue
     /\ sinceExecuted' = IF due THEN 0 ELSE sinceExecuted
     /\ thrFlip' = IF due THEN ~thrFlip ELSE thrFlip
     /\ thrUpdated' = (thrUpdated \/ due)
     /\ sinceUpdate' = IF due THEN 0 ELSE sinceUpdate
     /\ delayFixed' = IF due THEN TRUE ELSE delayFixed
     /\ UNCHANGED <<input, delay, debouncedValue, debTimers, debHandle, thrHandle,
                    held, heldValues, debFlip, notTimers>>

\* one tick passes
Tick ==
  /\ debTimers' = Aged(debTimers)
  /\ thrTimers' = Aged(thrTimers)
  /\ sinceExecuted' = Later(sinceExecuted)
  /\ held' = Later(held)
  /\ sinceUpdate' = Later(sinceUpdate)
  /\ UNCHANGED <<input, delay, debouncedValue, debHandle, throttledValue, thrHandle,
                 heldValues, debFlip, thrFlip, thrUpdated, delayFixed, notTimers>>

InitTimers ==
  /\ HookInit
  /\ localStorage = NoSlots
  /\ OthersInit
  /\ ReducerInit(<<>>)
  /\ \E d \in Delays : TimersInit(d)

NextTimers ==
  \/ \E v \in Inputs : ChangeInput(v)
  \/ \E d \in Delays : ChangeDelay(d)
  \/ \E t \in debTimers : FireDebounce(t)
  \/ \E t \in thrTimers : FireThrottle(t)
  \/ Tick

SpecTimers == InitTimers /\ [][NextTimers]_vars

\* time passes and a due timer runs
FairSpecTimers ==
  /\ SpecTimers
  /\ WF_vars(Tick)
  /\ WF_vars(\E t \in debTimers : FireDebounce(t))
  /\ WF_vars(\E t \in thrTimers : FireThrottle(t))

(* -------------------------- useCopyToClipboard ------------------------- *)
\* the names in the list of users
Names == {Str(<<"a">>), Str(<<"b">>)}

\* seq without its i-th element
Without(seq, i) == SubSeq(seq, 1, i - 1) \o SubSeq(seq, i + 1, Len(seq))

\* every countdown one tick later
RECURSIVE AgedCountdowns(_)
AgedCountdowns(seq) ==
  IF seq = <<>> THEN <<>>
  ELSE <<IF Head(seq) > 0 THEN Head(seq) - 1 ELSE 0>> \o AgedCountdowns(Tail(seq))

\* copy(text) up to its await; the button of a name shows while copiedText
\* is another value
copy(text) ==
  /\ copiedText # text
  /\ Len(writes) + Len(copyTimers) < MaxCopies
  /\ writes' = Append(writes, text)
  /\ UNCHANGED <<copiedText, copyTimers, copyErrors, copied, lastCopied, sinceCopy,
                 notCopy>>

\* writeText resolves: setCopiedText(text), setTimeout(..., 2000)
WriteResolved(i) ==
  /\ i \in DOMAIN writes
  /\ writes' = Without(writes, i)
  /\ copiedText' = writes[i]
  /\ copyTimers' = Append(copyTimers, CopyTicks)
  /\ copied' = TRUE
  /\ lastCopied' = writes[i]
  /\ sinceCopy' = 0
  /\ UNCHANGED <<copyErrors, notCopy>>

\* writeText rejects: the catch block logs and copy returns
WriteRejected(i) ==
  /\ i \in DOMAIN writes
  /\ writes' = Without(writes, i)
  /\ copyErrors' = ~copyErrors
  /\ UNCHANGED <<copiedText, copyTimers, copied, lastCopied, sinceCopy, notCopy>>

\* the callback of a reset timer: setCopiedText(null)
FireReset(i) ==
  /\ i \in DOMAIN copyTimers
  /\ copyTimers[i] = 0
  /\ copyTimers' = Without(copyTimers, i)
  /\ copiedText' = Null
  /\ UNCHANGED <<writes, copyErrors, copied, lastCopied, sinceCopy, notCopy>>

\* one second passes
TickCopy ==
  /\ copyTimers' = AgedCountdowns(copyTimers)
  /\ sinceCopy' = IF sinceCopy < CopyTicks THEN sinceCopy + 1 ELSE CopyTicks
  /\ UNCHANGED <<copiedText, writes, copyErrors, copied, lastCopied, notCopy>>

InitCopy == Init /\ localStorage = NoSlots

NextCopy ==
  \/ \E text \in Names : copy(text)
  \/ \E i \in DOMAIN writes : WriteResolved(i)
  \/ \E i \in DOMAIN writes : WriteRejected(i)
  \/ \E i \in DOMAIN copyTimers : FireReset(i)
  \/ TickCopy

SpecCopy == InitCopy /\ [][NextCopy]_vars

(* ----------------------------- user stores ----------------------------- *)
User(id, name) == [id |-> id, name |-> name]

\* what the users endpoint may answer
Responses == {<<>>, <<User(1, "a")>>, <<User(1, "a"), User(2, "b")>>}

\* the message of the error a failed request rejects with; "" also stands for
\* an error without a message
Messages == {"Network Error", ""}

\* the actions of the fetchUsers thunk
Pending == [type |-> "pending", payload |-> <<>>, message |-> ""]
Fulfilled(data) == [type |-> "fulfilled", payload |-> data, message |-> ""]
Rejected(m) == [type |-> "rejected", payload |-> <<>>, message |-> m]

\* the rejected case storing action.error.message as it is
usersReducerNoFallback(state, action) ==
  IF action.type = "pending"
    THEN [state EXCEPT !.loading = TRUE, !.error = NoError]
  ELSE IF action.type = "fulfilled"
    THEN [state EXCEPT !.loading = FALSE, !.data = action.payload]
  ELSE IF action.type = "rejected"
    THEN [state EXCEPT !.loading = FALSE, !.error = Message(action.message)]
  ELSE state

\* the extraReducers of usersSlice
usersReducer(state, action) ==
  IF action.type = "pending"
    THEN [state EXCEPT !.loading = TRUE, !.error = NoError]
  ELSE IF action.type = "fulfilled"
    THEN [state EXCEPT !.loading = FALSE, !.data = action.payload]
  ELSE IF action.type = "rejected"
    THEN [state EXCEPT !.loading = FALSE,
                       !.error = Message(IF action.message # "" THEN action.message
                                         ELSE "Failed to fetch")]
  ELSE state

\* useUserStore.fetchUsers up to its await: set({loading: true, error: null})
fetchUsers ==
  /\ storeFlights < MaxFlights
  /\ userStore' = [userStore EXCEPT !.loading = TRUE, !.error = NoError]
  /\ storeFlights' = storeFlights + 1
  /\ storeOverlap' = (storeOverlap \/ storeFlights > 0)
  /\ storeLast' = Last("start", <<>>)
  /\ UNCHANGED <<usersSlice, sliceFlights, sliceOverlap, sliceLast, notUsers>>

\* axios.get resolves: set({users: response.data, loading: false})
fetchUsersResolved(data) ==
  /\ storeFlights > 0
  /\ userStore' = [userStore EXCEPT !.users = data, !.loading = FALSE]
  /\ storeFlights' = storeFlights - 1
  /\ storeOverlap' = (storeOverlap /\ storeFlights > 1)
  /\ storeLast' = Last("ok", data)
  /\ UNCHANGED <<usersSlice, sliceFlights, sliceOverlap, sliceLast, notUsers>>

\* axios.get rejects: set({error: "Failed to fetch users", loading: false})
fetchUsersRejected ==
  /\ storeFlights > 0
  /\ userStore' = [userStore EXCEPT !.error = Message("Failed to fetch users"),
                                    !.loading = FALSE]
  /\ storeFlights' = storeFlights - 1
  /\ storeOverlap' = (storeOverlap /\ storeFlights > 1)
  /\ storeLast' = Last("fail", <<>>)
  /\ UNCHANGED <<usersSlice, sliceFlights, sliceOverlap, sliceLast, notUsers>>

\* dispatch(fetchUsers()): the thunk dispatches pending and calls getUsers
dispatchFetchUsers ==
  /\ sliceFlights < MaxFlights
  /\ usersSlice' = usersReducer(usersSlice, Pending)
  /\ sliceFlights' = sliceFlights + 1
  /\ sliceOverlap' = (sliceOverlap \/ sliceFlights > 0)
  /\ sliceLast' = Last("start", <<>>)
  /\ UNCHANGED <<userStore, storeFlights, storeOverlap, storeLast, notUsers>>

\* getUsers resolves: the thunk dispatches fulfilled with the users
thunkFulfilled(data) ==
  /\ sliceFlights > 0
  /\ usersSlice' = usersReducer(usersSlice, Fulfilled(data))
  /\ sliceFlights' = sliceFlights - 1
  /\ sliceOverlap' = (sliceOverlap /\ sliceFlights > 1)
  /\ sliceLast' = Last("ok", data)
  /\ UNCHANGED <<userStore, storeFlights, storeOverlap, storeLast, notUsers>>

\* getUsers rejects: the thunk dispatches rejected with the serialized error
thunkRejected(m) ==
  /\ sliceFlights > 0
  /\ usersSlice' = usersReducer(usersSlice, Rejected(m))
  /\ sliceFlights' = sliceFlights - 1
  /\ sliceOverlap' = (sliceOverlap /\ sliceFlights > 1)
  /\ sliceLast' = Last("fail", <<>>)
  /\ UNCHANGED <<userStore, storeFlights, storeOverlap, storeLast, notUsers>>

InitUsers == Init /\ localStorage = NoSlots

NextUsers ==
  \/ fetchUsers
  \/ \E data \in Responses : fetchUsersResolved(data)
  \/ fetchUsersRejected
  \/ dispatchFetchUsers
  \/ \E data \in Responses : thunkFulfilled(data)
  \/ \E m \in Messages : thunkRejected(m)

SpecUsers == InitUsers /\ [][NextUsers]_vars

(* ---------------------------- ErrorBoundary ---------------------------- *)
\* the Error objects the children may throw
Errors == {"E1", "E2", "E3"}

\* static getDerivedStateFromError(error)
getDerivedStateFromError(error) == [hasError |-> TRUE, error |-> error]

\* render(): the fallback when hasError and error, the children otherwise
render(state) ==
  IF state.hasError /\ state.error # NoThrow THEN "fallback" ELSE "children"

\* the children come to throw at their next render, or stop doing so
ChildChanges ==
  /\ faulty' = ~faulty
  /\ UNCHANGED <<boundary, rendered, caught, resets, boundaryLast, notBoundary>>

\* the children render and throw: React applies getDerivedStateFromError and
\* renders the boundary again
ChildThrows(error) ==
  /\ rendered = "children"
  /\ faulty
  /\ Len(caught) < MaxCatches
  /\ boundary' = getDerivedStateFromError(error)
  /\ rendered' = render(getDerivedStateFromError(error))
  /\ caught' = Append(caught, error)
  /\ boundaryLast' = [op |-> "throw", error |-> error, flip |-> ~boundaryLast.flip]
  /\ UNCHANGED <<faulty, resets, notBoundary>>

\* a reset that clears hasError and keeps the error
handleResetKeepsError ==
  /\ rendered = "fallback"
  /\ boundary' = [boundary EXCEPT !.hasError = FALSE]
  /\ rendered' = render([boundary EXCEPT !.hasError = FALSE])
  /\ resets' = resets + 1
  /\ boundaryLast' = [op |-> "reset", error |-> NoThrow, flip |-> ~boundaryLast.flip]
  /\ UNCHANGED <<faulty, caught, notBoundary>>

\* handleReset, the fallback's Try Again button: setState({hasError: false,
\* error: null}) and the render after it
handleReset ==
  /\ rendered = "fallback"
  /\ boundary' = [hasError |-> FALSE, error |-> NoThrow]
  /\ rendered' = render([hasError |-> FALSE, error |-> NoThrow])
  /\ resets' = resets + 1
  /\ boundaryLast' = [op |-> "reset", error |-> NoThrow, flip |-> ~boundaryLast.flip]
  /\ UNCHANGED <<faulty, caught, notBoundary>>

InitBoundary == Init /\ localStorage = NoSlots

NextBoundary ==
  \/ ChildChanges
  \/ \E error \in Errors : ChildThrows(error)
  \/ handleReset

SpecBoundary == InitBoundary /\ [][NextBoundary]_vars

(* ----------------------------- todoReducer ----------------------------- *)
\* the todos a list may hold
TodoValues ==
  {Todo(id, text, completed) : id \in 1..MaxClock, text \in {"a", "b"},
                               completed \in BOOLEAN}

\* the lists of at most n todos
RECURSIVE ListsUpTo(_)
ListsUpTo(n) ==
  IF n = 0 THEN {<<>>}
  ELSE LET shorter == ListsUpTo(n - 1)
       IN shorter \cup {Append(l, todo) : l \in {x \in shorter : Len(x) = n - 1},
                                          todo \in TodoValues}

\* the actions the reducer accepts on a list of l todos
ReducerActions(l) ==
  {Action("ADD_TODO", id, text, FALSE) : id \in (IF l < MaxTodos THEN 1..MaxClock ELSE {}),
                                         text \in {"a", "b"}}
    \cup {Action("TOGGLE_TODO", id, "", FALSE) : id \in 1..MaxClock}
    \cup {Action("DELETE_SELECTED", 0, "", FALSE)}
    \cup {Action("SELECT_ALL", 0, "", flag) : flag \in BOOLEAN}

\* dispatch(a) and the render that reduces it
ReduceAction(a) ==
  /\ todoList' = todoReducer(todoList, a)
  /\ before' = todoList
  /\ trail' = IF Len(trail) < 2 THEN Append(trail, a) ELSE <<trail[2], a>>
  /\ UNCHANGED notReducer

InitReducer ==
  /\ HookInit
  /\ localStorage = NoSlots
  /\ OthersInit
  /\ TimersInit(1)
  /\ \E l \in ListsUpTo(MaxTodos) : ReducerInit(l)

NextReducer == \E a \in ReducerActions(Len(todoList)) : ReduceAction(a)

SpecReducer == InitReducer /\ [][NextReducer]_vars

(* ------------------------------ claims --------------------------------- *)
LastCall == log[Len(log)]
Called == mounted /\ log # <<>>
\* a store write or remove of this instance has thrown
Faulted == console \cap {"write", "remove"} # {}
\* no store call of this instance has thrown and no stored text was unreadable
FaultFree == console = {}
\* the text in the slot is the serialization of v
SlotHolds(ls, v) ==
  JSONstringify(v).ok /\ hasItem(ls, key) /\ ls[key] = JSONstringify(v).text
FreshValue(d) == LazyInit(localStorage, key, d, TRUE).value

\* C1: when the slot is absent at creation, the value exposed before any
\* set or reset is the default, whatever the default is.
HydrationFallback ==
  (mounted /\ log = <<>> /\ hydration.kind = "absent") => storedValue = initialValue

HydrationFallbackWitness ==
  mounted /\ log = <<>> /\ hydration.kind = "absent" /\ storedValue = Num(0) /\ ~effectPending

\* C2: once the write that follows set(v) has completed, an instance created
\* on the same key exposes v, whatever its default.
RoundTrip ==
  (Settled /\ Called /\ LastCall.op = "set" /\ lastSync = "ok")
    => /\ \A d \in Defaults : FreshValue(d) = storedValue
       /\ LastCall.a.f = "const" => storedValue = LastCall.a.v

RoundTripWitness ==
  /\ Settled /\ Called /\ LastCall.op = "set" /\ lastSync = "ok"
  /\ storedValue = Str(<<"a">>)
  /\ syncs >= 2

\* C3 (as claimed): after reset(), called with nothing pending, and the
\* effects it triggers, with no store failure at all, the value is the default and
\* the slot is absent.
ResetClearsBothSides ==
  (Settled /\ Called /\ LastCall.op = "reset" /\ quiet /\ FaultFree)
    => storedValue = initialValue /\ ~hasItem(localStorage, key)

\* C4 (as claimed): with effects settled after each call and no store
\* failure, a second reset() ends with the value and the slot the first one
\* ended with: the default and an absent slot.
ResetIdempotent ==
  (Settled /\ Called /\ LastCall.op = "reset" /\ onceState.some /\ quiet /\ FaultFree)
    => /\ storedValue = onceState.value
       /\ localStorage = onceState.store
       /\ storedValue = initialValue
       /\ ~hasItem(localStorage, key)

\* C5: updates are applied in call order: n calls of set(prev => prev + 1)
\* from 0 give n, batched or not, and set(v) then set(f) gives f(v).
NoLostUpdates ==
  (Called /\ queue = <<>>)
    => /\ (hydration.value = Num(0) /\ \A i \in 1..Len(log) : log[i].a = Inc)
            => storedValue = Num(Len(log))
       /\ (Len(log) >= 2 /\ log[Len(log) - 1].a.f = "const" /\ LastCall.a = Inc)
            => storedValue = Num(log[Len(log) - 1].a.v.n + 1)

NoLostUpdatesWitness ==
  /\ Called /\ queue = <<>> /\ hydration.value = Num(0)
  /\ Len(log) = 2 /\ log[1].a = Inc /\ log[2].a = Inc
  /\ changes = 1
  /\ storedValue = Num(2)

\* C6: a throwing write or remove never reaches the caller, and the value
\* is still the one the last set or reset asked for.
FailOpen ==
  /\ ~escaped
  /\ (Called /\ queue = <<>> /\ Faulted)
       => /\ (LastCall.op = "set" /\ LastCall.a.f = "const") => storedValue = LastCall.a.v
          /\ LastCall.op = "reset" => storedValue = initialValue

FailOpenWitness ==
  /\ Settled /\ Len(log) = 3 /\ console = {"write", "remove"}
  /\ log[2].op = "reset" /\ LastCall.op = "set"
  /\ lastSync = "failed"
  /\ storedValue = Num(2)

\* C7 (as claimed): with an unreadable slot the instance starts from the
\* default, and from then on the value and, once the effects have run, the
\* slot are those of the run started with the slot absent.
UnreadableLikeAbsent ==
  mounted
    => /\ (log = <<>> /\ hydration.kind \in {"readError", "parseError"})
            => storedValue = initialValue
       /\ ~escaped
       /\ twinValue = storedValue
       /\ ~effectPending => twinStorage = localStorage

\* C7 (amended): the value is always that of the run started with the slot
\* absent; the slot is, once a write or remove of the instance has
\* succeeded, and until then it still holds what it held at creation.
UnreadableLikeAbsentOnceWritten ==
  mounted
    => /\ (log = <<>> /\ hydration.kind \in {"readError", "parseError"})
            => storedValue = initialValue
       /\ ~escaped
       /\ twinValue = storedValue
       /\ twinPending = effectPending
       /\ touched => twinStorage = localStorage
       /\ ~touched => twinStorage \in {localStorage, removeItem(localStorage, key)}

UnreadableWitness ==
  /\ Settled /\ hydration.kind = "parseError" /\ touched /\ "write" \in console
  /\ Called /\ storedValue # initialValue
  /\ hasItem(localStorage, key)

\* C8: a sync that succeeds leaves the serialization of the current value
\* in the slot, and it stays there until a set or reset takes effect; a sync
\* that fails leaves the store as it was.
SyncInvariant ==
  [][ /\ lastSync' = "ok" => SlotHolds(localStorage', storedValue')
      /\ (lastSync = "pending" /\ lastSync' = "failed") => localStorage' = localStorage
    ]_vars

SyncInvariantWitness ==
  /\ mounted /\ lastSync = "ok" /\ queue # <<>> /\ syncs = 3
  /\ "write" \in console
  /\ storedValue = Num(1)

\* C9: after a persisted set(v) and a reset(), with no store failure, the
\* value is the default and an instance created with the same default
\* exposes the default.
ResetSurvivesReload ==
  (Settled /\ Called /\ LastCall.op = "reset" /\ ~Faulted)
    => storedValue = initialValue /\ FreshValue(initialValue) = initialValue

ResetSurvivesReloadWitness ==
  /\ Settled /\ Len(log) = 2 /\ ~Faulted
  /\ log[1].op = "set" /\ log[1].a = Const(Str(<<"a">>)) /\ log[2].op = "reset"
  /\ syncs = 3
  /\ initialValue = Str(<<>>)

\* C10 (as claimed): every set call causes its own write, so with no store
\* failure k set calls after the mount leave k + 1 writes.
OneWritePerSet ==
  (Settled /\ FaultFree /\ \A i \in 1..Len(log) : log[i].op = "set") => syncs = Len(log) + 1

\* C10 (amended): a write is caused by the mount and by every render that
\* changes the value, so set calls rendered together share one write and a
\* set of the current value causes none; after a write that succeeded the
\* slot holds the final value.
OneWritePerChange ==
  /\ mounted => syncs <= changes + 1 /\ changes <= Len(log)
  /\ Settled => syncs = changes + 1
  /\ (Settled /\ lastSync = "ok") => SlotHolds(localStorage, storedValue)

OneWritePerChangeWitness ==
  /\ Settled /\ Len(log) = 3 /\ \A i \in 1..3 : log[i].op = "set"
  /\ syncs = 2
  /\ lastSync = "ok"

\* C11: the render that follows a reset() shows the default, also when the
\* reset was called while a sync was pending: the call enqueues its update at
\* once, and a sync never changes the value.
ResetImmediate ==
  [][ /\ (mounted' /\ log' # <<>> /\ log'[Len(log')].op = "reset" /\ queue' = <<>>)
           => storedValue' = initialValue'
      /\ (mounted /\ Len(log') = Len(log) + 1 /\ log'[Len(log')].op = "reset")
           => queue' = Append(queue, Const(initialValue))
      /\ syncs' = syncs + 1 => storedValue' = storedValue
    ]_vars

ResetImmediateWitness ==
  /\ mounted /\ ~quiet /\ queue = <<>> /\ Len(log) = 2
  /\ log[1].a = Const(Num(1)) /\ log[2].op = "reset"
  /\ changes = 2
  /\ storedValue = Num(0)
  /\ hasItem(localStorage, key) /\ localStorage[key] = <<"1">>

\* the slot holds a text that is not the serialization of the value, with
\* nothing pending and no store failure
StaleSlot ==
  /\ Settled /\ ~Faulted
  /\ hasItem(localStorage, key)
  /\ ~SlotHolds(localStorage, storedValue)

ExclusiveOwnership ==
  hasItem(localStorage, key) =>
    /\ JSONparse(localStorage[key]).ok
    /\ \E v \in Literals(Str(<<>>)) : SlotHolds(localStorage, v)

\* C15: the routes switch to the dashboard only from a state whose token slot
\* is present, and a render of /dashboard with the slot absent redirects to
\* /login, records /dashboard as the return target and shows no dashboard.
RouteGuard ==
  [][ /\ (page' = "dashboard" /\ page # "dashboard") => hasItem(localStorage, key)
      /\ page' = "dashboard" => mounted'
      /\ (pending /\ ~effectPending /\ path = "/dashboard" /\ ~hasItem(localStorage, key))
           => (path' = "/login" /\ from' = "/dashboard" /\ page' # "dashboard" /\ ~mounted')
    ]_vars

\* a visit of /dashboard after a logout ended on the login page
RouteGuardWitness ==
  /\ page = "login"
  /\ ~pending
  /\ from = "/dashboard"
  /\ loggedOut
  /\ ~hasItem(localStorage, key)

\* C16: from a logout whose removal did not throw until the next login the
\* token slot is absent and the routes never show the dashboard.
LogoutRemovesToken ==
  loggedOut =>
    /\ ~hasItem(localStorage, key)
    /\ ~pending => page # "dashboard"

\* TodoPage has reduced every action and run every effect
SettledTodo == Settled /\ actions = <<>> /\ ~pageEffectPending

\* C14: in every settled state of TodoPage reached without a store failure
\* the slot holds the serialization of the reducer's list, and a page mounted
\* after a settled page unmounted starts its reducer with the list that page
\* showed: the same ids, texts, completed flags and order.
TodoPersistence ==
  [][ /\ (SettledTodo' /\ console' = {})
           => /\ SlotHolds(localStorage', todos')
              /\ JSONparse(localStorage'[key]).ok
              /\ JSONparse(localStorage'[key]).value.s = todos'.s
      /\ (~mounted /\ mounted' /\ lastList.known /\ hydration'.kind # "readError")
           => /\ hydration'.kind = "parsed"
              /\ todos'.s = lastList.list
    ]_vars

\* a reloaded page shows the two todos, the first one completed, of the last page
TodoPersistenceWitness ==
  /\ SettledTodo
  /\ console = {}
  /\ Len(log) = 1
  /\ lastList.known
  /\ Len(lastList.list) = 2
  /\ todos.s = lastList.list
  /\ todos.s[1].completed
  /\ ~todos.s[2].completed
  /\ todos.s[1].id # todos.s[2].id

\* C17: setDebouncedValue runs only when the input has held its value, with
\* the delay unchanged, for at least delay ticks, and it sets that value; a
\* change of the input or of the delay leaves exactly the timer it sets, so
\* that at most one timer of useDebounce is pending.
DebounceHolds ==
  [][ /\ debFlip' # debFlip
           => (debouncedValue' = input /\ input' = input /\ held >= delay)
      /\ debouncedValue' # debouncedValue => debFlip' # debFlip
      /\ (input' # input \/ delay' # delay)
           => debTimers' = {Timer(debHandle', delay', input')}
      /\ Cardinality(debTimers') <= 1
    ]_vars

\* "a" was typed and replaced before its delay ran out; "b" came through
DebounceHoldsWitness ==
  /\ debouncedValue = "b"
  /\ input = "b"
  /\ heldValues = {"", "a", "b"}
  /\ debFlip
  /\ debTimers = {}
  /\ delay = MaxDelay

\* C18: between two successive calls of setThrottledValue with the delay
\* unchanged at least delay ticks pass, and the throttled value changes only
\* in such a call.
ThrottleRate ==
  [][ /\ (thrFlip' # thrFlip /\ thrUpdated /\ delayFixed /\ delay' = delay)
           => sinceUpdate >= delay
      /\ throttledValue' # throttledValue => thrFlip' # thrFlip
    ]_vars

\* a second update, made by the effect itself, after "a" and "b" were typed
ThrottleRateWitness ==
  /\ thrUpdated
  /\ ~thrFlip
  /\ delayFixed
  /\ delay = MaxDelay
  /\ sinceUpdate = 0
  /\ throttledValue = "b"
  /\ "a" \in heldValues
  /\ Cardinality(thrTimers) = 1

\* C19: both hooks always show a value the input has had, and when the input
\* and the delay stop changing both end up showing the input for good.
Convergence ==
  /\ []({debouncedValue, throttledValue} \subseteq heldValues)
  /\ (<>[][FALSE]_<<input, delay>>)
       => <>[](debouncedValue = input /\ throttledValue = input)

\* every timer has run and both hooks show the last of three inputs
ConvergenceWitness ==
  /\ heldValues = Inputs
  /\ input = "a"
  /\ debouncedValue = input
  /\ throttledValue = input
  /\ debTimers = {}
  /\ thrTimers = {}
  /\ thrUpdated

\* C20: during the 2 seconds after a copy that succeeded copiedText is its
\* text, whatever was copied before, and a clipboard write that fails leaves
\* copiedText as it is.
CopyIndicator ==
  [][ /\ (copied' /\ sinceCopy' < CopyTicks) => copiedText' = lastCopied'
      /\ copyErrors' # copyErrors => copiedText' = copiedText
    ]_vars

\* C21: a fetch of either store that starts with none in flight sets loading
\* and clears error; when it settles without another fetch having been in
\* flight, success leaves the response as the list with loading false and
\* error null, and failure leaves a non-empty message, loading false and the
\* list as it was.
FetchLifecycle ==
  [][ /\ (storeFlights = 0 /\ storeFlights' = 1)
           => (userStore'.loading /\ userStore'.error = NoError)
      /\ (storeFlights = 1 /\ ~storeOverlap /\ storeFlights' = 0 /\ storeLast'.op = "ok")
           => userStore' = [users |-> storeLast'.data, loading |-> FALSE, error |-> NoError]
      /\ (storeFlights = 1 /\ ~storeOverlap /\ storeFlights' = 0 /\ storeLast'.op = "fail")
           => /\ ~userStore'.error.null
              /\ userStore'.error.message # ""
              /\ ~userStore'.loading
              /\ userStore'.users = userStore.users
      /\ (sliceFlights = 0 /\ sliceFlights' = 1)
           => (usersSlice'.loading /\ usersSlice'.error = NoError)
      /\ (sliceFlights = 1 /\ ~sliceOverlap /\ sliceFlights' = 0 /\ sliceLast'.op = "ok")
           => usersSlice' = [data |-> sliceLast'.data, loading |-> FALSE, error |-> NoError]
      /\ (sliceFlights = 1 /\ ~sliceOverlap /\ sliceFlights' = 0 /\ sliceLast'.op = "fail")
           => /\ ~usersSlice'.error.null
              /\ usersSlice'.error.message # ""
              /\ ~usersSlice'.loading
              /\ usersSlice'.data = usersSlice.data
    ]_vars

\* both stores hold two users from an earlier fetch and a later single fetch
\* of each has failed, the slice's with an error that has no message
FetchLifecycleWitness ==
  /\ storeFlights = 0
  /\ storeLast.op = "fail"
  /\ Len(userStore.users) = 2
  /\ userStore.error = Message("Failed to fetch users")
  /\ sliceFlights = 0
  /\ sliceLast.op = "fail"
  /\ Len(usersSlice.data) = 2
  /\ usersSlice.error = Message("Failed to fetch")
  /\ ~usersSlice.loading

\* C22: hasError holds exactly when error is not null, and the fallback is
\* rendered exactly then; an error thrown by a child leaves the boundary in
\* the error state with that error, and handleReset leaves it in
\* {hasError: false, error: null} with the children rendered.
ErrorBoundaryMachine ==
  [][ /\ boundary'.hasError <=> boundary'.error # NoThrow
      /\ rendered' = "fallback" <=> boundary'.hasError
      /\ rendered' = "children" <=> ~boundary'.hasError
      /\ (boundaryLast' # boundaryLast /\ boundaryLast'.op = "throw")
           => /\ boundary' = [hasError |-> TRUE, error |-> boundaryLast'.error]
              /\ boundaryLast'.error \in Errors
      /\ (boundaryLast' # boundaryLast /\ boundaryLast'.op = "reset")
           => boundary' = [hasError |-> FALSE, error |-> NoThrow]
    ]_vars

\* after a reset the children threw again and the fallback shows that error
ErrorBoundaryMachineWitness ==
  /\ caught = <<"E1", "E2">>
  /\ resets = 1
  /\ boundaryLast.op = "throw"
  /\ boundary = [hasError |-> TRUE, error |-> "E2"]
  /\ rendered = "fallback"

\* the last action reduced was DELETE_SELECTED
DeletedLast == trail # <<>> /\ trail[Len(trail)].type = "DELETE_SELECTED"

\* C23: after DELETE_SELECTED the list is the sublist of the todos that were
\* not completed, each unchanged and in its place relative to the others;
\* DELETE_SELECTED on the result gives the result, and after SELECT_ALL(true)
\* it gives the empty list.
DeleteSelectedExact ==
  DeletedLast =>
    /\ \A i \in DOMAIN todoList : ~todoList[i].completed
    /\ Len(todoList) = Cardinality({i \in DOMAIN before : ~before[i].completed})
    /\ \E f \in [DOMAIN todoList -> DOMAIN before] :
         /\ \A i, j \in DOMAIN todoList : i < j => f[i] < f[j]
         /\ \A i \in DOMAIN todoList : before[f[i]] = todoList[i]
    /\ todoReducer(todoList, Action("DELETE_SELECTED", 0, "", FALSE)) = todoList
    /\ (Len(trail) = 2 /\ trail[1].type = "DELETE_SELECTED") => todoList = before
    /\ (Len(trail) = 2 /\ trail[1] = Action("SELECT_ALL", 0, "", TRUE)) => todoList = <<>>

\* the completed first todo is gone and the second one is left as it was
DeleteSelectedExactWitness ==
  /\ DeletedLast
  /\ Len(before) = 2
  /\ before[1].completed
  /\ ~before[2].completed
  /\ todoList = <<before[2]>>

====
